---- MODULE Spec2Model ----
(***************************************************************************)
(* State-machine model of sync_cost_center_with_teams.py: the script that  *)
(* reconciles the membership of a billing cost center against the          *)
(* membership of an enterprise team.                                       *)
(*                                                                         *)
(* Strings are sequences: identifiers are sequences of code points (so     *)
(* that sorted() is a real lexicographic sort), header and URL text are    *)
(* sequences of one-character strings (so that parse_next_link is a real   *)
(* parser).  Python's None and the empty string are both the empty         *)
(* sequence: every test the script makes on them is a truthiness test.     *)
(***************************************************************************)
EXTENDS Integers, Sequences, FiniteSets, TLC

(* ------------------------------ bounds --------------------------------- *)

\* number of user identifiers in the universe
NumUsers == 3
\* the most pages the team listing of Spec's server has
MaxChain == 2

\* most link descriptors in a header given to parse_next_link on its own
MaxDescriptors == 2
\* most keys of a mapping given to extract_memberships on its own
MaxKeys == 2

(* ------------------------- program constants --------------------------- *)

\* pagination safety limit of fetch_enterprise_team_members
MaxPages == 200

None == <<>>

\* identifiers, as code-point sequences; deliberately not listed in order
UserPool == << <<2>>, <<1, 1>>, <<1>>, <<1, 2>>, <<2, 1>> >>
Users == {UserPool[i] : i \in 1..NumUsers}

\* HTTP statuses a server answers with
Statuses == {200, 201, 204, 500}
ServerAccepted(status) == status \in {200, 201, 204}

\* the four mandatory environment variables
Required == {"GITHUB_ENTERPRISE", "GITHUB_TEAM_SLUG", "GITHUB_COST_CENTER_ID", "GITHUB_TOKEN"}
EnvValues == {"set", "empty", "absent"}

(* --------------------------- string helpers ---------------------------- *)

\* str.find(c): 0-based index of the first occurrence, -1 when absent
Find(s, c) ==
    IF \E i \in 1..Len(s) : s[i] = c
    THEN (CHOOSE i \in 1..Len(s) : s[i] = c /\ \A j \in 1..(i - 1) : s[j] # c) - 1
    ELSE -1

\* needle in s
Contains(s, needle) ==
    \E i \in 0..(Len(s) - Len(needle)) :
        \A j \in 1..Len(needle) : s[i + j] = needle[j]

\* s[start:end] with 0 <= start <= end <= len(s)
Slice(s, start, end) == SubSeq(s, start + 1, end)

RECURSIVE StripLeft(_)
StripLeft(s) == IF Len(s) > 0 /\ s[1] = " " THEN StripLeft(Tail(s)) ELSE s

RECURSIVE StripRight(_)
StripRight(s) ==
    IF Len(s) > 0 /\ s[Len(s)] = " " THEN StripRight(SubSeq(s, 1, Len(s) - 1)) ELSE s

\* str.strip()
Strip(s) == StripRight(StripLeft(s))

\* str.split(","): always at least one part
RECURSIVE SplitComma(_)
SplitComma(s) ==
    LET k == Find(s, ",")
    IN  IF k = -1 THEN <<s>>
        ELSE <<Slice(s, 0, k)>> \o SplitComma(Slice(s, k + 1, Len(s)))

RelNext == <<"r", "e", "l", "=", "\"", "n", "e", "x", "t", "\"">>
RelPrev == <<"r", "e", "l", "=", "\"", "p", "r", "e", "v", "\"">>

\* the loop without the test of the relation
RECURSIVE NextInPartsAnyRel(_)
NextInPartsAnyRel(parts) ==
    IF parts = <<>> THEN None
    ELSE LET part  == Strip(Head(parts))
             start == Find(part, "<") + 1
             end   == Find(part, ">")
         IN  IF start > 0 /\ end > start
             THEN Slice(part, start, end)
             ELSE NextInPartsAnyRel(Tail(parts))

RECURSIVE NextInParts(_)
NextInParts(parts) ==
    IF parts = <<>> THEN None
    ELSE LET part  == Strip(Head(parts))
             start == Find(part, "<") + 1
             end   == Find(part, ">")
         IN  IF Contains(part, RelNext) /\ start > 0 /\ end > start
             THEN Slice(part, start, end)
             ELSE NextInParts(Tail(parts))

parse_next_link(link_header) ==
    IF link_header = None THEN None
    ELSE NextInParts(SplitComma(link_header))

(* ------------------------------ sorted() ------------------------------- *)

\* Python's str ordering: lexicographic on code points, a proper prefix first
LexLess(a, b) ==
    \/ Len(a) < Len(b) /\ \A i \in 1..Len(a) : a[i] = b[i]
    \/ \E i \in 1..Len(a) :
          /\ i <= Len(b)
          /\ a[i] < b[i]
          /\ \A j \in 1..(i - 1) : a[j] = b[j]

\* sorted() with the comparison reversed
RECURSIVE sortedDescending(_)
sortedDescending(S) ==
    IF S = {} THEN <<>>
    ELSE LET m == CHOOSE x \in S : \A y \in S \ {x} : LexLess(y, x)
         IN  <<m>> \o sortedDescending(S \ {m})

RECURSIVE sorted(_)
sorted(S) ==
    IF S = {} THEN <<>>
    ELSE LET m == CHOOSE x \in S : \A y \in S \ {x} : LexLess(x, y)
         IN  <<m>> \o sorted(S \ {m})

(* ---------------------------- JSON values ------------------------------ *)

\* a decoded JSON value: t is its Python type, s the text of a str,
\* items the elements of a list or the <<key, value>> pairs of a dict
JNull == [t |-> "null", s |-> <<>>, items |-> <<>>]
JStr(text) == [t |-> "str", s |-> text, items |-> <<>>]
JList(xs) == [t |-> "list", s |-> <<>>, items |-> xs]
JDict(kvs) == [t |-> "dict", s |-> <<>>, items |-> kvs]

\* key in d
HasKey(d, key) == \E i \in 1..Len(d.items) : d.items[i][1] = key

\* d.get(key), None when the key is absent
DictGet(d, key) ==
    IF HasKey(d, key)
    THEN d.items[CHOOSE i \in 1..Len(d.items) : d.items[i][1] = key][2]
    ELSE JNull

\* bool(v)
Truthy(v) ==
    CASE v.t = "null" -> FALSE
      [] v.t = "str"  -> v.s # <<>>
      [] OTHER        -> v.items # <<>>

\* a or b
PyOr(a, b) == IF Truthy(a) THEN a ELSE b

\* the well-known names with the first two exchanged
PriorityKeysReordered == <<"items", "memberships", "value", "data">>

PriorityKeys == <<"memberships", "items", "value", "data">>

RECURSIVE FirstPriorityList(_, _)
FirstPriorityList(payload, keys) ==
    IF keys = <<>> THEN None
    ELSE IF HasKey(payload, Head(keys)) /\ DictGet(payload, Head(keys)).t = "list"
         THEN <<DictGet(payload, Head(keys)).items>>
         ELSE FirstPriorityList(payload, Tail(keys))

RECURSIVE FirstRecordList(_)
FirstRecordList(kvs) ==
    IF kvs = <<>> THEN <<>>
    ELSE LET v == Head(kvs)[2]
         IN  IF v.t = "list" /\ (Len(v.items) = 0 \/ v.items[1].t = "dict")
             THEN v.items
             ELSE FirstRecordList(Tail(kvs))

\* the list of membership records of one page
extract_memberships(payload) ==
    CASE payload.t = "list" -> payload.items
      [] payload.t = "dict" ->
            LET hit == FirstPriorityList(payload, PriorityKeys)
            IN  IF hit # None THEN hit[1] ELSE FirstRecordList(payload.items)
      [] OTHER -> <<>>

\* the login read from the nested user mapping only
MemberLoginNestedOnly(m) ==
    IF m.t # "dict" THEN None
    ELSE LET user  == PyOr(DictGet(m, "user"), JDict(<<>>))
             login == IF user.t = "dict" THEN DictGet(user, "login") ELSE JNull
         IN  IF Truthy(login) THEN login.s ELSE None

\* the login of one membership record, None when the record is skipped;
\* the login fields of the pages served are str or null
MemberLogin(m) ==
    IF m.t # "dict" THEN None
    ELSE LET user  == PyOr(DictGet(m, "user"), JDict(<<>>))
             login == IF user.t = "dict" THEN DictGet(user, "login") ELSE JNull
             final == PyOr(login, DictGet(m, "login"))
         IN  IF Truthy(final) THEN final.s ELSE None

\* the logins one page adds to the set
PageLogins(payload) ==
    LET ms == extract_memberships(payload)
    IN  {MemberLogin(ms[i]) : i \in 1..Len(ms)} \ {None}

\* the login of one entry of a cost center's users
UserLogin(user) ==
    LET login == IF user.t = "dict"
                 THEN PyOr(DictGet(user, "login"), DictGet(user, "username"))
                 ELSE user
    IN  IF Truthy(login) THEN login.s ELSE None

\* the loop over users, ok FALSE when it raises: a list gives its entries
\* (dict, str or null in the bodies served), a str its characters, and None
\* is not iterable
UsersLogins(users) ==
    CASE users.t = "list" ->
            [ok |-> TRUE,
             logins |-> {UserLogin(users.items[i]) : i \in 1..Len(users.items)} \ {None}]
      [] users.t = "str" ->
            [ok |-> TRUE, logins |-> {<<users.s[i]>> : i \in 1..Len(users.s)}]
      [] users.t = "null" -> [ok |-> FALSE, logins |-> {}]

\* the logins of a cost center response; ok is FALSE when the code raises.
\* No text of the bodies served contains "resources" or "users", so the two
\* membership tests are false of a list and of a str.
CostCenterLogins(data) ==
    CASE data.t = "dict" ->
            IF HasKey(data, "resources")
            THEN LET resources == DictGet(data, "resources")
                 IN  IF resources.t # "dict" THEN [ok |-> FALSE, logins |-> {}]
                     ELSE IF HasKey(resources, "users")
                          THEN UsersLogins(DictGet(resources, "users"))
                          ELSE UsersLogins(JList(<<>>))
            ELSE IF HasKey(data, "users")
                 THEN UsersLogins(DictGet(data, "users"))
                 ELSE [ok |-> TRUE, logins |-> {}]
      [] data.t = "null" -> [ok |-> FALSE, logins |-> {}]
      [] OTHER -> [ok |-> TRUE, logins |-> {}]

(* ------------------------- what the server sends ----------------------- *)

\* the team memberships URL and the URLs of further pages
TeamUrl == <<"t">>
UrlA == <<"a">>
UrlB == <<"b">>

LinkNext(url) == <<"<">> \o url \o <<">", ";", " ">> \o RelNext
LinkPrev(url) == <<"<">> \o url \o <<">", ";", " ">> \o RelPrev
Sep == <<",", " ">>

\* Link headers that carry a next link, and headers (or no header) that do not
HeadersWithNext ==
    {LinkNext(UrlA), LinkNext(UrlB) \o Sep \o LinkPrev(UrlA), LinkPrev(UrlA) \o Sep \o LinkNext(UrlB)}
HeadersWithoutNext == {None, LinkPrev(UrlA)}

\* the URL of the page the server means to come after the one it sends
OfferedNext(header) ==
    CASE header = LinkNext(UrlA) -> UrlA
      [] header \in HeadersWithNext \ {LinkNext(UrlA)} -> UrlB
      [] OTHER -> None

TeamShapes == {"list", "memberships", "nodes", "mixed", "unrelated"}

UserRecord(u) == JDict(<< <<"user", JDict(<< <<"login", JStr(u)>> >>)>> >>)
LoginRecord(u) == JDict(<< <<"login", JStr(u)>> >>)
UsernameRecord(u) == JDict(<< <<"login", JNull>>, <<"username", JStr(u)>> >>)

\* one page of team memberships listing the users S in the given shape
TeamPayload(S, shape) ==
    LET us == sorted(S)
        userRecs  == [i \in 1..Len(us) |-> UserRecord(us[i])]
        loginRecs == [i \in 1..Len(us) |-> LoginRecord(us[i])]
    IN  CASE shape = "list"        -> JList(userRecs)
          [] shape = "memberships" -> JDict(<< <<"memberships", JList(loginRecs)>> >>)
          [] shape = "nodes"       -> JDict(<< <<"total", JStr(<<1>>)>>, <<"nodes", JList(userRecs)>> >>)
          [] shape = "mixed"       ->
                JList(<<JDict(<< <<"id", JStr(<<1>>)>> >>)>> \o userRecs \o <<JStr(<<2, 2>>)>> \o loginRecs)
          [] OTHER                 -> JDict(<< <<"unrelated", JStr(<<1>>)>> >>)

\* the users whose login a page of the given shape carries in a record
Listed(S, shape) == IF shape = "unrelated" THEN {} ELSE S

\* the bodies a cost center is served with during a run
CostCenterShapes == {"resources", "username", "users", "empty", "null"}

\* further bodies, given to the extraction on its own
OddCostCenterShapes ==
    {"list", "resources_list", "resources_null", "resources_no_users", "users_null",
     "users_text", "users_records", "users_beside_resources", "users_beside_null"}

\* a cost center body listing the users S in the given shape
CostCenterPayload(S, shape) ==
    LET us == sorted(S)
        loginRecs == [i \in 1..Len(us) |-> LoginRecord(us[i])]
        nameRecs  == [i \in 1..Len(us) |-> UsernameRecord(us[i])]
        bare      == [i \in 1..Len(us) |-> JStr(us[i])]
    IN  CASE shape = "resources" -> JDict(<< <<"resources", JDict(<< <<"users", JList(loginRecs)>> >>)>> >>)
          [] shape = "username"  -> JDict(<< <<"resources", JDict(<< <<"users", JList(nameRecs)>> >>)>> >>)
          [] shape = "users"     -> JDict(<< <<"users", JList(bare)>> >>)
          [] shape = "empty"     -> JDict(<<>>)
          [] shape = "null"      -> JNull
          [] shape = "list"      -> JList(bare)
          [] shape = "resources_list" -> JDict(<< <<"resources", JList(bare)>> >>)
          [] shape = "resources_null" -> JDict(<< <<"resources", JNull>> >>)
          [] shape = "resources_no_users" -> JDict(<< <<"resources", JDict(<< <<"total", JStr(<<1>>)>> >>)>> >>)
          [] shape = "users_null" -> JDict(<< <<"users", JNull>> >>)
          [] shape = "users_text" -> JDict(<< <<"users", JStr(<<1, 2>>)>> >>)
          [] shape = "users_records" -> JDict(<< <<"users", JList(nameRecs)>> >>)
          [] shape = "users_beside_resources" ->
                JDict(<< <<"resources", JDict(<<>>)>>, <<"users", JList(bare)>> >>)
          [] shape = "users_beside_null" ->
                JDict(<< <<"resources", JNull>>, <<"users", JList(loginRecs)>> >>)

(* ------------------ inputs of the functions on their own --------------- *)

\* the sequences over P of at most n elements
SeqsUpTo(P, n) == UNION {[1..k -> P] : k \in 0..n}

\* a link descriptor: its URL (possibly empty), its relation ("none" when it
\* has no rel parameter) and whether white space precedes it
Descriptors == [url : {UrlA, UrlB, <<>>}, rel : {"next", "prev", "next prev", "none"}, pad : BOOLEAN]

RelText(rel) ==
    CASE rel = "next" -> <<";", " ">> \o RelNext
      [] rel = "prev" -> <<";", " ">> \o RelPrev
      [] rel = "next prev" ->
            <<";", " ", "r", "e", "l", "=", "\"", "n", "e", "x", "t", " ", "p", "r", "e", "v", "\"">>
      [] rel = "none" -> <<>>

\* the text of one descriptor
RenderDescriptor(d) ==
    (IF d.pad THEN <<" ">> ELSE <<>>) \o <<"<">> \o d.url \o <<">">> \o RelText(d.rel)

\* the text of a Link header made of the descriptors ds; none gives no header
RECURSIVE RenderHeader(_)
RenderHeader(ds) ==
    IF ds = <<>> THEN None
    ELSE IF Len(ds) = 1 THEN RenderDescriptor(ds[1])
         ELSE RenderDescriptor(ds[1]) \o <<",">> \o RenderHeader(Tail(ds))

HeaderInputs == SeqsUpTo(Descriptors, MaxDescriptors)

\* the keys and the kinds of value of the mappings given to extract_memberships
PayloadKeys == {"memberships", "items", "value", "data", "total", "nodes"}
ValueKinds == {"records", "empty", "strings", "text", "null"}
SequenceKinds == {"records", "empty", "strings"}

\* the value of the given kind at position i: what it holds names i
ValueOf(i, kind) ==
    CASE kind = "records" -> JList(<<LoginRecord(UserPool[i])>>)
      [] kind = "strings" -> JList(<<JStr(UserPool[i])>>)
      [] kind = "empty"   -> JList(<<>>)
      [] kind = "text"    -> JStr(UserPool[i])
      [] kind = "null"    -> JNull

\* a payload: a list, a mapping with distinct keys in some order, or a scalar
PayloadInputs ==
    {[top |-> "list", entries |-> <<[key |-> "", val |-> k]>>] : k \in SequenceKinds}
    \cup {[top |-> "other", entries |-> <<[key |-> "", val |-> k]>>] : k \in {"text", "null"}}
    \cup {[top |-> "dict", entries |-> es] :
            es \in {e \in SeqsUpTo([key : PayloadKeys, val : ValueKinds], MaxKeys) :
                      \A i, j \in 1..Len(e) : i # j => e[i].key # e[j].key}}

\* the JSON value of a payload input
PayloadOf(in) ==
    CASE in.top = "dict" ->
            JDict([i \in 1..Len(in.entries) |-> <<in.entries[i].key, ValueOf(i, in.entries[i].val)>>])
      [] OTHER -> ValueOf(1, in.entries[1].val)

CostCenterInputs == [shape : CostCenterShapes \cup OddCostCenterShapes, S : SUBSET Users]

(* ------------------------------- state --------------------------------- *)

VARIABLES
    env,                  \* the environment: each required variable set, empty or absent
    serverTeam,           \* the team's membership on the server
    serverCC,             \* the cost center's membership on the server
    srv_chain,            \* the most pages the server's team listing has
    prev_run,             \* how the previous run of the script ended, NoRun in a first run
    pc,                   \* position of the script
    exit_code,            \* exit status of the process, -1 while it runs
    failure,              \* the request of this run that failed fatally, and how
    next_url, page,       \* locals of fetch_enterprise_team_members, until its frame is dropped
    team_members,         \* logins accumulated by the team fetcher
    cost_center_members,  \* result of fetch_cost_center_members
    cc_at_fetch,          \* serverCC when the cost center GET was answered
    planned,              \* the differences have been computed
    to_remove, to_add,
    idx,                  \* position of the current phase's loop in its sorted list
    removed_count, added_count,
    rm_report, add_report, \* the "Successfully removed/added n/m" lines
    in_sync,              \* the "already in sync" line has been logged
    warned,               \* the pagination safety warning has been logged
    get_url,              \* the URL of the last GET of the team fetcher
    link_sent,            \* the next URL the server offered with its last page
    listed,               \* the logins the pages served so far carried
    fetch_gets,           \* GETs issued by the call of the team fetcher, until its frame is dropped
    cc_gets,              \* cost center GETs issued by this run
    mutations,            \* DELETE and POST requests issued by this run, in order
    fn, fn_arg,           \* a function applied on its own, "none" during runs, and its input
    fn_done, fn_ret       \* whether it has returned, and what

vars == <<env, serverTeam, serverCC, srv_chain, prev_run, pc, exit_code, failure,
          next_url, page, team_members, cost_center_members, cc_at_fetch,
          planned, to_remove, to_add, idx, removed_count, added_count,
          rm_report, add_report, in_sync, warned, fetch_gets, cc_gets, mutations,
          get_url, link_sent, listed, fn, fn_arg, fn_done, fn_ret>>

fnVars == <<fn, fn_arg, fn_done, fn_ret>>
worldVars == <<env, serverTeam, srv_chain, prev_run, fnVars>>
fetchVars == <<next_url, page, team_members, warned, fetch_gets, get_url, link_sent, listed>>
planVars == <<cost_center_members, cc_at_fetch, planned, to_remove, to_add, cc_gets>>
phaseVars == <<idx, removed_count, added_count, rm_report, add_report, mutations>>

NoRun == [exit_code |-> -1, complete |-> FALSE, clean |-> FALSE]
NoFailure == [who |-> "none", kind |-> "none"]

\* the state of a process that has just been started
ProcessStart ==
    /\ pc = "main"
    /\ exit_code = -1
    /\ failure = NoFailure
    /\ next_url = None
    /\ page = 0
    /\ team_members = {}
    /\ cost_center_members = {}
    /\ cc_at_fetch = {}
    /\ planned = FALSE
    /\ to_remove = {}
    /\ to_add = {}
    /\ idx = 0
    /\ removed_count = 0
    /\ added_count = 0
    /\ rm_report = <<>>
    /\ add_report = <<>>
    /\ in_sync = FALSE
    /\ warned = FALSE
    /\ get_url = None
    /\ link_sent = None
    /\ listed = {}
    /\ fetch_gets = 0
    /\ cc_gets = 0
    /\ mutations = <<>>

\* no function is applied on its own
NoCall ==
    /\ fn = "none"
    /\ fn_arg = <<>>
    /\ fn_done = FALSE
    /\ fn_ret = <<>>

Init ==
    /\ env \in [Required -> EnvValues]
    /\ serverTeam \in SUBSET Users
    /\ serverCC \in SUBSET Users
    /\ srv_chain = MaxChain
    /\ prev_run = NoRun
    /\ ProcessStart
    /\ NoCall

\* a server whose team listing can go on past the pagination limit
InitCap ==
    /\ env = [v \in Required |-> "set"]
    /\ serverTeam = {UserPool[1]}
    /\ serverCC = {UserPool[2]}
    /\ srv_chain = MaxPages + 1
    /\ prev_run = NoRun
    /\ ProcessStart
    /\ NoCall

\* a function about to be applied to one of its inputs, no run in progress
InitFn ==
    /\ env = [v \in Required |-> "set"]
    /\ serverTeam = {}
    /\ serverCC = {}
    /\ srv_chain = MaxChain
    /\ prev_run = NoRun
    /\ ProcessStart
    /\ fn_done = FALSE
    /\ fn_ret = <<>>
    /\ \/ fn = "parse_next_link" /\ fn_arg \in HeaderInputs
       \/ fn = "extract_memberships" /\ fn_arg \in PayloadInputs
       \/ fn = "fetch_cost_center_members" /\ fn_arg \in CostCenterInputs

(* ------------------------------ the script ----------------------------- *)

\* the validation with `is None` in place of `not`: an empty value passes
MissingAbsentOnly(e) == {v \in Required : e[v] = "absent"}

\* the names main() reports as missing
Missing(e) == {v \in Required : e[v] # "set"}

\* the status test with 204 left out
RemoveSucceededOnly200(status) == status = 200

\* status test of remove_user_from_cost_center
RemoveSucceeded(status) == status \in {200, 204}

\* status test of add_user_to_cost_center
AddSucceeded(status) == status \in {200, 201, 204}

\* the difference with its operands swapped
ComputeToRemoveSwapped(cost_center, team) == team \ cost_center

\* every team member, not only those the cost center lacks
ComputeToAddAll(team, cost_center) == team

\* the removal of every cost center member
ComputeToRemoveAll(cost_center, team) == cost_center

ComputeToRemove(cost_center, team) == cost_center \ team
ComputeToAdd(team, cost_center) == team \ cost_center

\* the limit test off by one
PageLimitReachedEarly(p) == p >= MaxPages

\* the safety limit test after a page has been read
PageLimitReached(p) == p > MaxPages

\* the test with the additions forgotten
AlreadyInSyncNoRemovals(rm, add) == rm = {}

\* the test guarding the "already in sync" line
AlreadyInSync(rm, add) == rm = {} /\ add = {}

\* the two blocks in the other order
FirstPhaseAddFirst(rm, add) ==
    IF add # {} THEN "add" ELSE IF rm # {} THEN "remove" ELSE "exited"

\* the block the orchestrator enters after the analysis: removals come first
FirstPhase(rm, add) ==
    IF rm # {} THEN "remove" ELSE IF add # {} THEN "add" ELSE "exited"

\* the run given up with the status of a success
AbortStatusZero ==
    /\ pc' = "exited"
    /\ exit_code' = 0

\* SystemExit raised by the script, or an exception caught by main(): exit 1
Abort ==
    /\ pc' = "exited"
    /\ exit_code' = 1

\* a non-JSON body taken for an empty one
FetchFailureIgnored(kind) ==
    IF kind = "body"
    THEN pc' = "fetch_cc" /\ exit_code' = exit_code
    ELSE Abort

\* a fetch that got no response, a status other than 200 or a non-JSON body
FetchFailure(kind) == Abort

\* the exception caught and logged where it is raised
MutationRaiseSwallowed ==
    /\ pc' = pc
    /\ exit_code' = exit_code

\* an exception raised by requests.post or requests.delete: nothing in the
\* loops or in the mutation functions catches it
MutationRaise == Abort

\* sync_cost_center_with_team returns and the process ends with status 0
Finish(rm, add) ==
    /\ pc' = "exited"
    /\ exit_code' = 0
    /\ in_sync' = AlreadyInSync(rm, add)

\* the locals of the team fetcher are gone once the caller takes its next step
DropFrame ==
    /\ next_url' = None
    /\ page' = 0
    /\ fetch_gets' = 0
    /\ get_url' = None
    /\ link_sent' = None
    /\ listed' = {}

\* main(): validation of the environment, then the first lines of the sync
Main ==
    /\ pc = "main"
    /\ IF Missing(env) # {}
       THEN /\ Abort
            /\ UNCHANGED <<next_url, page>>
       ELSE /\ pc' = "fetch_team"
            /\ next_url' = TeamUrl
            /\ page' = 1
            /\ UNCHANGED exit_code
    /\ UNCHANGED <<serverCC, failure, team_members, warned, fetch_gets, in_sync>>
    /\ UNCHANGED <<get_url, link_sent, listed>>
    /\ UNCHANGED worldVars
    /\ UNCHANGED planVars
    /\ UNCHANGED phaseVars

\* one iteration of the while loop of fetch_enterprise_team_members whose
\* request fails: transport exception, status other than 200, non-JSON body
TeamGetFails ==
    /\ pc = "fetch_team"
    /\ fetch_gets' = fetch_gets + 1
    /\ \E kind \in {"exception", "status", "body"} :
          /\ failure' = [who |-> "team", kind |-> kind]
          /\ FetchFailure(kind)
    /\ get_url' = next_url
    /\ UNCHANGED <<serverCC, next_url, page, team_members, warned, in_sync, link_sent, listed>>
    /\ UNCHANGED worldVars
    /\ UNCHANGED planVars
    /\ UNCHANGED phaseVars

\* one iteration of the while loop whose request is answered 200 with JSON
TeamGetPage ==
    /\ pc = "fetch_team"
    /\ fetch_gets' = fetch_gets + 1
    /\ \E S \in SUBSET serverTeam, shape \in TeamShapes,
          header \in (IF fetch_gets + 1 < srv_chain
                      THEN HeadersWithNext \cup HeadersWithoutNext
                      ELSE HeadersWithoutNext) :
          /\ team_members' = team_members \cup PageLogins(TeamPayload(S, shape))
          /\ next_url' = parse_next_link(header)
          /\ link_sent' = OfferedNext(header)
          /\ listed' = listed \cup Listed(S, shape)
    /\ get_url' = next_url
    /\ page' = page + 1
    /\ warned' = PageLimitReached(page')
    /\ pc' = IF PageLimitReached(page') \/ next_url' = None THEN "fetch_cc" ELSE "fetch_team"
    /\ UNCHANGED <<serverCC, exit_code, failure, in_sync>>
    /\ UNCHANGED worldVars
    /\ UNCHANGED planVars
    /\ UNCHANGED phaseVars

\* fetch_cost_center_members whose request fails or whose body makes the
\* extraction raise
CostCenterGetFails ==
    /\ pc = "fetch_cc"
    /\ cc_gets' = cc_gets + 1
    /\ \/ \E kind \in {"exception", "status", "body"} :
             /\ failure' = [who |-> "cost_center", kind |-> kind]
             /\ FetchFailure(kind)
       \/ \E S \in SUBSET serverCC, shape \in CostCenterShapes :
             /\ ~CostCenterLogins(CostCenterPayload(S, shape)).ok
             /\ failure' = [who |-> "cost_center", kind |-> "shape"]
             /\ Abort
    /\ DropFrame
    /\ UNCHANGED <<serverCC, in_sync, cost_center_members, cc_at_fetch, planned,
                   to_remove, to_add, team_members, warned>>
    /\ UNCHANGED worldVars
    /\ UNCHANGED phaseVars

\* fetch_cost_center_members answered, then the differences and the choice
\* of the first phase
CostCenterGet ==
    /\ pc = "fetch_cc"
    /\ cc_gets' = cc_gets + 1
    /\ \E S \in SUBSET serverCC, shape \in CostCenterShapes :
          LET r == CostCenterLogins(CostCenterPayload(S, shape))
          IN  /\ r.ok
              /\ cost_center_members' = r.logins
    /\ cc_at_fetch' = serverCC
    /\ planned' = TRUE
    /\ to_remove' = ComputeToRemove(cost_center_members', team_members)
    /\ to_add' = ComputeToAdd(team_members, cost_center_members')
    /\ IF FirstPhase(to_remove', to_add') = "exited"
       THEN Finish(to_remove', to_add') /\ UNCHANGED idx
       ELSE /\ pc' = FirstPhase(to_remove', to_add')
            /\ idx' = 1
            /\ UNCHANGED <<exit_code, in_sync>>
    /\ DropFrame
    /\ UNCHANGED <<serverCC, failure, removed_count, added_count, rm_report, add_report,
                   mutations, team_members, warned>>
    /\ UNCHANGED worldVars

\* one iteration of the removal loop: a DELETE that raises
RemoveRaises ==
    /\ pc = "remove"
    /\ mutations' = Append(mutations, [method |-> "DELETE", user |-> sorted(to_remove)[idx], status |-> 0])
    /\ failure' = [who |-> "remove", kind |-> "exception"]
    /\ MutationRaise
    /\ UNCHANGED <<serverCC, in_sync, idx, removed_count, added_count, rm_report, add_report>>
    /\ UNCHANGED worldVars
    /\ UNCHANGED fetchVars
    /\ UNCHANGED planVars

\* one iteration of the removal loop: a DELETE that is answered
RemoveStep ==
    /\ pc = "remove"
    /\ \E status \in Statuses :
          LET username == sorted(to_remove)[idx]
          IN  /\ mutations' = Append(mutations, [method |-> "DELETE", user |-> username, status |-> status])
              /\ serverCC' = IF ServerAccepted(status) THEN serverCC \ {username} ELSE serverCC
              /\ removed_count' = IF RemoveSucceeded(status) THEN removed_count + 1 ELSE removed_count
    /\ IF idx < Cardinality(to_remove)
       THEN /\ idx' = idx + 1
            /\ UNCHANGED <<pc, exit_code, in_sync, rm_report>>
       ELSE /\ rm_report' = <<removed_count', Cardinality(to_remove)>>
            /\ idx' = 1
            /\ IF to_add # {}
               THEN pc' = "add" /\ UNCHANGED <<exit_code, in_sync>>
               ELSE Finish(to_remove, to_add)
    /\ UNCHANGED <<failure, added_count, add_report>>
    /\ UNCHANGED worldVars
    /\ UNCHANGED fetchVars
    /\ UNCHANGED planVars

\* one iteration of the addition loop: a POST that raises
AddRaises ==
    /\ pc = "add"
    /\ mutations' = Append(mutations, [method |-> "POST", user |-> sorted(to_add)[idx], status |-> 0])
    /\ failure' = [who |-> "add", kind |-> "exception"]
    /\ MutationRaise
    /\ UNCHANGED <<serverCC, in_sync, idx, removed_count, added_count, rm_report, add_report>>
    /\ UNCHANGED worldVars
    /\ UNCHANGED fetchVars
    /\ UNCHANGED planVars

\* one iteration of the addition loop: a POST that is answered
AddStep ==
    /\ pc = "add"
    /\ \E status \in Statuses :
          LET username == sorted(to_add)[idx]
          IN  /\ mutations' = Append(mutations, [method |-> "POST", user |-> username, status |-> status])
              /\ serverCC' = IF ServerAccepted(status) THEN serverCC \cup {username} ELSE serverCC
              /\ added_count' = IF AddSucceeded(status) THEN added_count + 1 ELSE added_count
    /\ IF idx < Cardinality(to_add)
       THEN /\ idx' = idx + 1
            /\ UNCHANGED <<pc, exit_code, in_sync, add_report>>
       ELSE /\ add_report' = <<added_count', Cardinality(to_add)>>
            /\ idx' = 1
            /\ Finish(to_remove, to_add)
    /\ UNCHANGED <<failure, removed_count, rm_report>>
    /\ UNCHANGED worldVars
    /\ UNCHANGED fetchVars
    /\ UNCHANGED planVars

\* a mutation request returned a success status for its verb
ReturnedSuccess(m) ==
    \/ m.method = "DELETE" /\ m.status \in {200, 204}
    \/ m.method = "POST" /\ m.status \in {200, 201, 204}

\* both fetches of this run returned the complete memberships
FetchesComplete == planned /\ team_members = serverTeam /\ cost_center_members = cc_at_fetch

\* the run ended normally after complete fetches and only successful mutations
CleanRun ==
    /\ pc = "exited"
    /\ exit_code = 0
    /\ FetchesComplete
    /\ \A i \in 1..Len(mutations) : ReturnedSuccess(mutations[i])

\* the script is started again, right after the previous run has ended
NextRun ==
    /\ pc = "exited"
    /\ prev_run' = [exit_code |-> exit_code, complete |-> FetchesComplete, clean |-> CleanRun]
    /\ pc' = "main"
    /\ exit_code' = -1
    /\ failure' = NoFailure
    /\ next_url' = None
    /\ page' = 0
    /\ team_members' = {}
    /\ cost_center_members' = {}
    /\ cc_at_fetch' = {}
    /\ planned' = FALSE
    /\ to_remove' = {}
    /\ to_add' = {}
    /\ idx' = 0
    /\ removed_count' = 0
    /\ added_count' = 0
    /\ rm_report' = <<>>
    /\ add_report' = <<>>
    /\ in_sync' = FALSE
    /\ warned' = FALSE
    /\ get_url' = None
    /\ link_sent' = None
    /\ listed' = {}
    /\ fetch_gets' = 0
    /\ cc_gets' = 0
    /\ mutations' = <<>>
    /\ UNCHANGED <<env, serverTeam, serverCC, srv_chain, fn, fn_arg, fn_done, fn_ret>>

Next ==
    \/ Main
    \/ TeamGetFails
    \/ TeamGetPage
    \/ CostCenterGetFails
    \/ CostCenterGet
    \/ RemoveRaises
    \/ RemoveStep
    \/ AddRaises
    \/ AddStep

\* one run of the script against any state of the server
Spec == Init /\ [][Next]_vars

\* one run against a server whose team listing does not end
SpecCap == InitCap /\ [][Next]_vars

processVars == <<serverCC, pc, exit_code, failure, in_sync>>

\* parse_next_link applied to the text of a header
ApplyParseNextLink ==
    /\ fn = "parse_next_link"
    /\ ~fn_done
    /\ fn_ret' = parse_next_link(RenderHeader(fn_arg))
    /\ fn_done' = TRUE
    /\ UNCHANGED <<env, serverTeam, srv_chain, prev_run, fn, fn_arg>>
    /\ UNCHANGED <<processVars, fetchVars, planVars, phaseVars>>

\* extract_memberships applied to a payload
ApplyExtractMemberships ==
    /\ fn = "extract_memberships"
    /\ ~fn_done
    /\ fn_ret' = extract_memberships(PayloadOf(fn_arg))
    /\ fn_done' = TRUE
    /\ UNCHANGED <<env, serverTeam, srv_chain, prev_run, fn, fn_arg>>
    /\ UNCHANGED <<processVars, fetchVars, planVars, phaseVars>>

\* the extraction of fetch_cost_center_members applied to a decoded body
ApplyCostCenterLogins ==
    /\ fn = "fetch_cost_center_members"
    /\ ~fn_done
    /\ fn_ret' = CostCenterLogins(CostCenterPayload(fn_arg.S, fn_arg.shape))
    /\ fn_done' = TRUE
    /\ UNCHANGED <<env, serverTeam, srv_chain, prev_run, fn, fn_arg>>
    /\ UNCHANGED <<processVars, fetchVars, planVars, phaseVars>>

NextFn ==
    \/ ApplyParseNextLink
    \/ ApplyExtractMemberships
    \/ ApplyCostCenterLogins

\* the parsing and extraction functions, each applied to one input
SpecFn == InitFn /\ [][NextFn]_vars

NextRuns ==
    \/ Next
    \/ NextRun

\* runs of the script in succession, the server changed by nothing else
SpecRuns == Init /\ [][NextRuns]_vars

(* ------------------------------- claims -------------------------------- *)

\* the requests of the log with the given verb for the given user
AttemptsOf(method, u) ==
    Cardinality({i \in 1..Len(mutations) : mutations[i].method = method /\ mutations[i].user = u})

\* the requests of the log with the given verb that returned a success status
SuccessesOf(method) ==
    Cardinality({i \in 1..Len(mutations) :
                    mutations[i].method = method /\ ReturnedSuccess(mutations[i])})

Issued(method) == \E i \in 1..Len(mutations) : mutations[i].method = method

\* C1: whenever a POST has been issued, every identifier of to_remove has had
\* its DELETE issued earlier in the run.
RemovalsBeforeAdditions ==
    \A i \in 1..Len(mutations) :
        mutations[i].method = "POST" =>
            \A u \in to_remove :
                \E j \in 1..(i - 1) : mutations[j].method = "DELETE" /\ mutations[j].user = u

\* a POST has been issued in a run that had two identifiers to remove
RemovalsBeforeAdditionsWitness ==
    /\ Issued("POST")
    /\ Cardinality(to_remove) >= 2

\* C2: no identifier is ever requested twice; once a phase is over without
\* any request having raised, each identifier of its set has been requested
\* exactly once and no other, and the reported count is the number of the
\* phase's requests that returned a success status, out of the size of the set.
FailureIsolation ==
    /\ \A u \in Users : AttemptsOf("DELETE", u) <= 1 /\ AttemptsOf("POST", u) <= 1
    /\ (pc = "add" \/ (pc = "exited" /\ exit_code = 0 /\ planned)) =>
          /\ \A u \in Users : AttemptsOf("DELETE", u) = (IF u \in to_remove THEN 1 ELSE 0)
          /\ to_remove # {} => rm_report = <<SuccessesOf("DELETE"), Cardinality(to_remove)>>
    /\ (pc = "exited" /\ exit_code = 0 /\ planned) =>
          /\ \A u \in Users : AttemptsOf("POST", u) = (IF u \in to_add THEN 1 ELSE 0)
          /\ to_add # {} => add_report = <<SuccessesOf("POST"), Cardinality(to_add)>>

\* two additions, the first answered 500 and the second accepted, and a
\* removal answered 204: one of two and one of one are reported
FailureIsolationWitness ==
    /\ pc = "exited"
    /\ exit_code = 0
    /\ add_report = <<1, 2>>
    /\ rm_report = <<1, 1>>
    /\ mutations[1].status = 204
    /\ mutations[2].status = 500

\* C3: after a fetch answered with a status other than 200 or with a non-JSON
\* body the run is over, no plan was made and no POST or DELETE was issued;
\* when it was the team fetch, no cost center GET was issued either.
FetchFailureFatal ==
    (failure.who \in {"team", "cost_center"} /\ failure.kind \in {"status", "body"}) =>
        /\ pc = "exited"
        /\ exit_code # 0
        /\ ~planned
        /\ mutations = <<>>
        /\ failure.who = "team" => cc_gets = 0

\* the second page of the team listing came back with a non-JSON body
FetchFailureFatalWitness ==
    /\ failure = [who |-> "team", kind |-> "body"]
    /\ fetch_gets = 2
    /\ team_members # {}

\* C4: a run that ended normally after complete fetches and in which every
\* mutation request returned a success status leaves the cost center with
\* exactly the members of the team.
SyncReachesTeam == CleanRun => serverCC = serverTeam

\* such a run that had to remove and to add
SyncReachesTeamWitness ==
    /\ CleanRun
    /\ Issued("DELETE")
    /\ Issued("POST")

\* C5 as stated: in a run that follows a run which ended normally after
\* complete fetches, and whose own fetches are complete, both differences
\* are empty.
SecondRunAlwaysIdle ==
    (prev_run.exit_code = 0 /\ prev_run.complete /\ FetchesComplete) =>
        (to_add = {} /\ to_remove = {})

\* C5 amended: in a run that follows a run which ended normally after
\* complete fetches and only successful mutation requests, and whose own
\* fetches are complete, both differences are empty and no mutation request
\* is issued.
SecondRunIdle ==
    (prev_run.clean /\ FetchesComplete) =>
        (to_add = {} /\ to_remove = {} /\ mutations = <<>>)

\* the second run found a non-empty team already in the cost center
SecondRunIdleWitness ==
    /\ prev_run.clean
    /\ FetchesComplete
    /\ pc = "exited"
    /\ in_sync
    /\ team_members # {}

\* C6: the plan is the pair of set differences of the fetched sets, so an
\* addition is never in the cost center set, a removal never in the team set
\* and no identifier is in both.
PlanIsDifference ==
    planned =>
        /\ to_add = team_members \ cost_center_members
        /\ to_remove = cost_center_members \ team_members
        /\ to_add \cap cost_center_members = {}
        /\ to_remove \cap team_members = {}
        /\ to_add \cap to_remove = {}

\* a plan with an addition, a removal and a member to keep
PlanIsDifferenceWitness ==
    /\ planned
    /\ Cardinality(to_add) = 1
    /\ Cardinality(to_remove) = 1
    /\ Cardinality(team_members \cap cost_center_members) = 1

\* C7: the team fetcher never issues more than 200 GETs; it returns with a
\* next link still pending only after exactly 200 of them, and then without
\* failing; no identifier accumulated so far is dropped while it runs or
\* when it returns.
CapEnforced ==
    /\ [](/\ fetch_gets <= MaxPages
          /\ (pc = "fetch_cc" /\ next_url # None) =>
                (fetch_gets = MaxPages /\ exit_code = -1 /\ failure = NoFailure))
    /\ [][(pc = "fetch_team" /\ pc' \in {"fetch_team", "fetch_cc"}) =>
              team_members \subseteq team_members']_vars

\* the fetcher has returned after 200 pages that all carried a next link
CapEnforcedWitness ==
    /\ pc = "fetch_cc"
    /\ next_url # None
    /\ fetch_gets = MaxPages
    /\ team_members # {}

\* C8: once a DELETE or POST has raised, the run is over with exit status 1,
\* the raising request is the last one of the log, and a DELETE that raised
\* is followed by no POST.
MutationRaiseFatal ==
    failure.who \in {"remove", "add"} =>
        /\ pc = "exited"
        /\ exit_code = 1
        /\ mutations # <<>>
        /\ \A i \in 1..Len(mutations) : (mutations[i].status = 0) <=> (i = Len(mutations))
        /\ failure.who = "remove" => ~Issued("POST")

\* the first of two removals raised, with an addition still to make
MutationRaiseFatalWitness ==
    /\ failure.who = "remove"
    /\ Len(mutations) = 1
    /\ Cardinality(to_remove) = 2
    /\ to_add # {}

\* C9: of two requests of the same phase, the earlier one is for the
\* lexicographically smaller identifier.
SortedOrder ==
    \A i, j \in 1..Len(mutations) :
        (i < j /\ mutations[i].method = mutations[j].method) =>
            LexLess(mutations[i].user, mutations[j].user)

\* three removals have been requested
SortedOrderWitness ==
    /\ Len(mutations) = 3
    /\ \A i \in 1..3 : mutations[i].method = "DELETE"

\* C10: a run that ends normally with both differences empty logs "already
\* in sync" and has issued no POST or DELETE; the line is logged only when
\* both differences are empty.
AlreadyInSyncReport ==
    /\ (pc = "exited" /\ exit_code = 0 /\ to_add = {} /\ to_remove = {}) =>
          (in_sync /\ mutations = <<>>)
    /\ in_sync => (planned /\ to_add = {} /\ to_remove = {} /\ mutations = <<>>)

\* the line was logged for a non-empty team
AlreadyInSyncReportWitness ==
    /\ in_sync
    /\ team_members # {}

\* C11: a run that ends after a missing configuration input, a failed fetch
\* or a request that raised ends with a non-zero status; a run with complete
\* configuration that made its plan and whose mutation requests, if any, all
\* returned a success status ends with status zero.
ExitStatus ==
    pc = "exited" =>
        /\ (Missing(env) # {} \/ failure # NoFailure) => exit_code # 0
        /\ (/\ Missing(env) = {}
            /\ planned
            /\ \A i \in 1..Len(mutations) : ReturnedSuccess(mutations[i])) => exit_code = 0
        /\ exit_code \in {0, 1}

\* a run that removed and added with success and ended with status zero
ExitStatusWitness ==
    /\ pc = "exited"
    /\ exit_code = 0
    /\ Issued("DELETE")
    /\ Issued("POST")
    /\ \A i \in 1..Len(mutations) : ReturnedSuccess(mutations[i])

\* C12: with a mandatory input absent or empty the process never gets past
\* main(): it ends with status 1 and no GET, POST or DELETE is ever issued.
ConfigurationFirst ==
    (\E v \in Required : env[v] \in {"absent", "empty"}) =>
        /\ pc \in {"main", "exited"}
        /\ pc = "exited" => exit_code = 1
        /\ fetch_gets = 0
        /\ cc_gets = 0
        /\ mutations = <<>>

\* the process has ended on a token that is set but empty
ConfigurationFirstWitness ==
    /\ pc = "exited"
    /\ env["GITHUB_TOKEN"] = "empty"
    /\ \A v \in Required \ {"GITHUB_TOKEN"} : env[v] = "set"

\* the bodies that lack the expected fields or have them in another type
UnexpectedShapes ==
    {"empty", "null", "list", "resources_list", "resources_null", "resources_no_users",
     "users_null", "users_text"}

\* C13: the extraction of the cost center fetcher, given a decoded body that
\* lacks the expected fields or has them in another type, does not raise and
\* returns the empty set.
UnexpectedShapeTolerated ==
    (fn = "fetch_cost_center_members" /\ fn_done /\ fn_arg.shape \in UnexpectedShapes) =>
        (fn_ret.ok /\ fn_ret.logins = {})

\* C14: a body with a users sequence inside a resources mapping gives the
\* identifiers of that sequence; a body with a top-level users sequence and
\* no resources mapping holding a users sequence gives the identifiers of
\* the top-level sequence.
UsersFallback ==
    (fn = "fetch_cost_center_members" /\ fn_done) =>
        /\ fn_arg.shape \in {"resources", "username"} =>
              (fn_ret.ok /\ fn_ret.logins = fn_arg.S)
        /\ fn_arg.shape \in {"users", "users_records", "users_beside_resources",
                             "users_beside_null"} =>
              (fn_ret.ok /\ fn_ret.logins = fn_arg.S)

\* the positions of the descriptors whose relation is exactly next
NextDescriptors(ds) == {i \in 1..Len(ds) : ds[i].rel = "next"}

\* C15: for a header with at most one descriptor of relation exactly next,
\* parse_next_link returns the URL that descriptor encloses, and nothing when
\* there is no header or no such descriptor.
LinkHeaderParsing ==
    (fn = "parse_next_link" /\ fn_done /\ Cardinality(NextDescriptors(fn_arg)) <= 1) =>
        fn_ret = IF NextDescriptors(fn_arg) = {}
                 THEN None
                 ELSE fn_arg[CHOOSE i \in NextDescriptors(fn_arg) : TRUE].url

\* the header <a>; rel="next", <b>; rel="prev" gave a
LinkHeaderParsingWitness ==
    /\ fn = "parse_next_link"
    /\ fn_done
    /\ fn_arg = <<[url |-> UrlA, rel |-> "next", pad |-> FALSE],
                  [url |-> UrlB, rel |-> "prev", pad |-> TRUE]>>
    /\ fn_ret = UrlA

\* the order of the well-known names, as the claim gives it
NamedKeys == <<"memberships", "items", "value", "data">>

\* what the claim's strategies select for a payload input
SelectedMemberships(in) ==
    IF in.top = "list" THEN ValueOf(1, in.entries[1].val).items
    ELSE IF in.top # "dict" THEN <<>>
    ELSE LET es    == in.entries
             named == {k \in 1..Len(NamedKeys) :
                          \E i \in 1..Len(es) :
                              es[i].key = NamedKeys[k] /\ es[i].val \in SequenceKinds}
             loose == {i \in 1..Len(es) : es[i].val \in {"records", "empty"}}
         IN  IF named # {}
             THEN LET k == CHOOSE x \in named : \A y \in named : x <= y
                      i == CHOOSE x \in 1..Len(es) : es[x].key = NamedKeys[k]
                  IN  ValueOf(i, es[i].val).items
             ELSE IF loose # {}
                  THEN LET i == CHOOSE x \in loose : \A y \in loose : x <= y
                       IN  ValueOf(i, es[i].val).items
                  ELSE <<>>

\* C16: extract_memberships returns a list payload unchanged; for a mapping,
\* the value of the first of memberships, items, value, data that is present
\* with a list value; failing that, the first value that is an empty list or
\* a list whose first element is a mapping; failing that, the empty list.
ExtractionPriority ==
    (fn = "extract_memberships" /\ fn_done) => fn_ret = SelectedMemberships(fn_arg)

\* a mapping with items before memberships, both lists: memberships wins
ExtractionPriorityWitness ==
    /\ fn = "extract_memberships"
    /\ fn_done
    /\ fn_arg.top = "dict"
    /\ fn_arg.entries = <<[key |-> "items", val |-> "records"],
                          [key |-> "memberships", val |-> "strings"]>>
    /\ fn_ret = <<JStr(UserPool[2])>>

\* C18: when the team fetcher has returned with the truncation warning
\* logged, a next cursor was still pending: a pagination whose last page
\* carries no next link never logs the warning.
TruncationWarningOnlyWhenPending ==
    (pc = "fetch_cc" /\ warned) => next_url # None

\* C19: every DELETE of the run is for an identifier of cost_center - team
\* and every POST for one of team - cost_center, so an identifier fetched in
\* both sets gets no request, none gets both verbs, and a team member that
\* was in the cost center when it was fetched is still in it.
MutationFrame ==
    /\ \A i \in 1..Len(mutations) :
          /\ mutations[i].method = "DELETE" =>
                mutations[i].user \in cost_center_members \ team_members
          /\ mutations[i].method = "POST" =>
                mutations[i].user \in team_members \ cost_center_members
    /\ \A u \in team_members \cap cost_center_members :
          AttemptsOf("DELETE", u) = 0 /\ AttemptsOf("POST", u) = 0
    /\ \A u \in Users : AttemptsOf("DELETE", u) = 0 \/ AttemptsOf("POST", u) = 0
    /\ planned => (team_members \cap cc_at_fetch) \subseteq serverCC

\* a finished run that removed and added while one identifier was in both sets
MutationFrameWitness ==
    /\ pc = "exited"
    /\ exit_code = 0
    /\ Issued("DELETE")
    /\ Issued("POST")
    /\ team_members \cap cost_center_members # {}

\* C17: the first GET of the team fetcher goes to the team URL and every
\* later one to the next URL the server offered with the page before; the
\* fetcher goes on exactly while a next URL was offered, with one GET per
\* page; and when the last page offered none, the set it returns is the
\* union of the logins the pages carried.
TeamFetchExact ==
    /\ []((pc = "fetch_team" /\ fetch_gets = 0) => next_url = TeamUrl)
    /\ []((pc = "fetch_team" /\ fetch_gets > 0) =>
             (link_sent # None /\ next_url = link_sent))
    /\ []((pc = "fetch_cc" /\ link_sent = None) =>
             (team_members = listed /\ fetch_gets = page - 1 /\ next_url = None))
    /\ []((pc = "fetch_cc" /\ link_sent # None) => warned)
    /\ [][(pc = "fetch_team" /\ fetch_gets' = fetch_gets + 1) =>
             get_url' = IF fetch_gets = 0 THEN TeamUrl ELSE link_sent]_vars

\* two pages fetched in link order, the second without a next link, and two
\* logins returned
TeamFetchExactWitness ==
    /\ pc = "fetch_cc"
    /\ fetch_gets = 2
    /\ get_url = UrlB
    /\ link_sent = None
    /\ Cardinality(team_members) = 2
    /\ team_members = listed

====
